---- MODULE Spec2Model ----
(***************************************************************************)
(* Resilience layer of the AI aggregation platform: the per-provider      *)
(* CircuitBreaker (src/error_handler.py) and the per-user rate limiter     *)
(* (src/rate_limiter.py), run by concurrent request threads.               *)
(*                                                                         *)
(* Each request thread has a program counter `pc`; one action is one       *)
(* source-level read or write of shared state, so that the interleavings   *)
(* of concurrent requests are those of the code (no lock is taken          *)
(* anywhere in either module).                                             *)
(*                                                                         *)
(* SpecCB and SpecRL run the calls of the breaker, resp. the requests of   *)
(* the rate limiter, concurrently; SpecCBSeq and SpecRLSeq run them one at *)
(* a time, for the properties that are stated of call sequences.           *)
(***************************************************************************)
EXTENDS Integers, FiniteSets, Sequences, TLC

(***************************************************************************)
(* Bounds of the model.                                                    *)
(***************************************************************************)
NumThreads == 2      \* concurrent request threads
MaxFailures == 6     \* a wrapped call may fail only while failures < MaxFailures
MaxWindows == 1      \* the clock advances by at most this many whole windows

Threads == 1..NumThreads

(***************************************************************************)
(* Program constants.                                                      *)
(***************************************************************************)
\* app.py:74-80  circuit_breakers = {'openai': CircuitBreaker('openai'), ...}
Providers == {"openai", "anthropic", "google", "hunter", "github"}

\* error_handler.py:74  def __init__(self, name, failure_threshold=5, reset_timeout=60)
failure_threshold == 5
reset_timeout == 60

\* error_handler.py:6-9: the module imports jsonify, logging, traceback and
\* requests, and nothing else: the name `time` that execute reads at lines
\* 104 and 129 is bound nowhere, so evaluating `time.time()` there raises
\* NameError.
TimeResolves == FALSE

\* rate_limiter.py:83-104  get_user_tier
get_user_tier(user) ==
    IF user = 1 THEN "free"
    ELSE IF user = 2 THEN "admin"
    ELSE IF user = 3 THEN "pro"
    ELSE IF user = 4 THEN "enterprise"
    ELSE "free"

\* rate_limiter.py:36-48  max_requests by tier (any other tier, 'admin'
\* included, falls to the else branch)
max_requests(tier) ==
    IF tier = "free" THEN 50
    ELSE IF tier = "pro" THEN 500
    ELSE IF tier = "enterprise" THEN 5000
    ELSE 10

\* rate_limiter.py:39,42,45,48  time_window = 3600 in every branch
time_window == 3600

\* the users that send requests: 1 is 'free' (50 per hour), 2 is 'admin'
\* (the else branch, 10 per hour), 3 is 'pro' (500 per hour)
Users == {1, 2, 3}

\* the users whose requests are run concurrently (the smallest limit)
ConcUsers == {2}

(***************************************************************************)
(* State.                                                                  *)
(***************************************************************************)
VARIABLES
    now,                \* the wall clock read by time.time()
    \* CircuitBreaker objects, one per provider (error_handler.py:83-88)
    state,              \* self.state: "closed", "open" or "half-open"
    failures,           \* self.failures
    last_failure_time,  \* self.last_failure_time
    \* rate_limiter.py:14, a dict user_id -> {'requests', 'window_start'}
    rate_limit_store,
    \* request threads
    pc,                 \* position of each thread in the code
    cb,                 \* the breaker (provider name) the thread executes on
    user_id,            \* rate limiter: current_user['id'] (0: no request)
    current_time,       \* rate limiter: local current_time (line 58)
    tmp,                \* the value read by the read half of a `+= 1`
    recStale,           \* the dict fetched by line 74 was replaced meanwhile
    res,                \* what the call returned / raised
    invoked,            \* times the wrapped function ran in this execute
    \* history
    failedAt,           \* clock at the last failed call of each breaker
    entry,              \* what the thread found when it entered execute
    seenStart,          \* window_start read by the reset test (line 59)
    admittedInWindow,   \* requests admitted since the user's record was (re)set
    exhausted,          \* a request of the user was answered 429
    \* the usage table of the database (usage_tracker.py): rows of the
    \* current month per user
    usage_count,
    \* process_prompt (app.py:94-145), per request thread
    provider_name,      \* data.get('provider', 'openai')
    body,               \* the request body: "valid", "noprompt", "malformed"
    attempt,            \* 0: no execute yet, 1: requested provider, 2: fallback
    result,             \* the dict bound to `result`
    response,           \* what the route returned to its caller
    \* history of the request
    outcome,            \* how the last upstream call of the request ended
    usageCheck,         \* what check_usage_limits read and returned
    execs,              \* the breakers execute was called on, in order
    called,             \* the providers whose process method ran, in order
    tracked,            \* the arguments of each track_usage call
    written,            \* usage rows the request inserted
    atStart             \* shared state when the request arrived

cbVars == <<state, failures, last_failure_time, cb, invoked, failedAt, entry>>
rlVars == <<rate_limit_store, user_id, current_time, recStale, seenStart,
            admittedInWindow, exhausted>>
ppVars == <<usage_count, provider_name, body, attempt, result, response,
            outcome, usageCheck, execs, called, tracked, written, atStart>>
vars == <<now, pc, tmp, res, cbVars, rlVars, ppVars>>

NoProvider == "none"
\* history: the breaker's state and counter, the clock and the time of the
\* breaker's last failed call, as they were when a thread passed line 102
NoEntry == [state |-> "closed", failures |-> 0, at |-> 0, failedAt |-> 0]

\* a request that has not been given a result / a response yet
NoResult == [provider |-> "none", status |-> "none"]
NoResponse == [code |-> 0, error |-> "none", result |-> NoResult]
NoCheck == [readable |-> TRUE, tier |-> "none", count |-> 0, within |-> TRUE]

\* the objects the process holds in memory when it has just started
InitMemory ==
    /\ now = 0
    /\ state = [b \in Providers |-> "closed"]
    /\ failures = [b \in Providers |-> 0]
    /\ last_failure_time = [b \in Providers |-> 0]
    /\ rate_limit_store = << >>
    /\ pc = [t \in Threads |-> "idle"]
    /\ cb = [t \in Threads |-> NoProvider]
    /\ user_id = [t \in Threads |-> 0]
    /\ current_time = [t \in Threads |-> 0]
    /\ tmp = [t \in Threads |-> 0]
    /\ recStale = [t \in Threads |-> FALSE]
    /\ res = [t \in Threads |-> "none"]
    /\ invoked = [t \in Threads |-> 0]
    /\ failedAt = [b \in Providers |-> 0]
    /\ entry = [t \in Threads |-> NoEntry]
    /\ seenStart = [t \in Threads |-> 0]
    /\ admittedInWindow = [u \in Users |-> 0]
    /\ exhausted = [u \in Users |-> FALSE]
    /\ provider_name = [t \in Threads |-> NoProvider]
    /\ body = [t \in Threads |-> "none"]
    /\ attempt = [t \in Threads |-> 0]
    /\ result = [t \in Threads |-> NoResult]
    /\ response = [t \in Threads |-> NoResponse]
    /\ outcome = [t \in Threads |-> "none"]
    /\ usageCheck = [t \in Threads |-> NoCheck]
    /\ execs = [t \in Threads |-> << >>]
    /\ called = [t \in Threads |-> << >>]
    /\ tracked = [t \in Threads |-> << >>]
    /\ written = [t \in Threads |-> 0]
    /\ atStart = [t \in Threads |-> << >>]

\* a process started on an empty usage table
Init ==
    /\ InitMemory
    /\ usage_count = [u \in Users |-> 0]

AllIdle == \A t \in Threads : pc[t] = "idle"

(***************************************************************************)
(* The clock.  It advances by a whole unit (the rate limiter's window, the *)
(* breaker's reset timeout), or by one second from a multiple of the unit, *)
(* which keeps the boundary cases (an elapsed time of exactly one unit,    *)
(* and of one unit plus one second).                                       *)
(***************************************************************************)
Tick(unit) ==
    /\ \E d \in {1, unit} :
          /\ now + d <= MaxWindows * unit + 1
          /\ d = 1 => now % unit = 0
          /\ now' = now + d
    /\ UNCHANGED <<ppVars, pc, tmp, res, cbVars, rlVars>>

(***************************************************************************)
(* CircuitBreaker.execute (error_handler.py:90-137).                       *)
(* The wrapped function is any callable: it returns or it raises.          *)
(***************************************************************************)
\* line 104: time.time() - self.last_failure_time > self.reset_timeout
TimeoutElapsed(t0, last) == t0 - last > reset_timeout

\* line 132: self.failures >= self.failure_threshold
ThresholdHit(fails) == fails >= failure_threshold

\* a thread calls circuit_breaker.execute(func) on the breaker of `b`
CB_Start(t, b) ==
    /\ pc[t] = "idle"
    /\ pc' = [pc EXCEPT ![t] = "cb_gate"]
    /\ cb' = [cb EXCEPT ![t] = b]
    /\ UNCHANGED <<ppVars, now, tmp, res, rlVars, state, failures, last_failure_time,
                   invoked, failedAt, entry>>

\* lines 102-113: the gate.  On an open breaker line 104 evaluates
\* time.time(): with `time` unbound that raises NameError out of execute
\* (the test is outside the try); were it bound, the breaker would go
\* half-open after the timeout and fast-fail before it.
CB_Gate(t) ==
    /\ pc[t] = "cb_gate"
    /\ LET b == cb[t] IN
          /\ entry' = [entry EXCEPT ![t] =
                         [state |-> state[b], failures |-> failures[b],
                          at |-> now, failedAt |-> failedAt[b]]]
          /\ IF state[b] = "open"
             THEN IF ~TimeResolves
                  THEN /\ res' = [res EXCEPT ![t] = "NameError"]
                       /\ pc' = [pc EXCEPT ![t] = "cb_done"]
                       /\ UNCHANGED state
                  ELSE IF TimeoutElapsed(now, last_failure_time[b])
                       THEN /\ state' = [state EXCEPT ![b] = "half-open"]
                            /\ pc' = [pc EXCEPT ![t] = "cb_call"]
                            /\ UNCHANGED res
                       ELSE /\ res' = [res EXCEPT ![t] = "unavailable"]
                            /\ pc' = [pc EXCEPT ![t] = "cb_done"]
                            /\ UNCHANGED state
             ELSE /\ pc' = [pc EXCEPT ![t] = "cb_call"]
                  /\ UNCHANGED <<state, res>>
    /\ UNCHANGED <<ppVars, now, tmp, rlVars, failures, last_failure_time, cb, invoked,
                   failedAt>>

\* line 116: result = func(*args, **kwargs), and func returns
CB_CallReturns(t) ==
    /\ pc[t] = "cb_call"
    /\ invoked' = [invoked EXCEPT ![t] = @ + 1]
    /\ pc' = [pc EXCEPT ![t] = "cb_ok"]
    /\ UNCHANGED <<ppVars, now, tmp, res, rlVars, state, failures, last_failure_time,
                   cb, failedAt, entry>>

\* line 116: func raises, control goes to the except clause of line 126
CB_CallRaises(t) ==
    /\ pc[t] = "cb_call"
    /\ failures[cb[t]] < MaxFailures
    /\ invoked' = [invoked EXCEPT ![t] = @ + 1]
    /\ pc' = [pc EXCEPT ![t] = "cb_exc_read"]
    /\ UNCHANGED <<ppVars, now, tmp, res, rlVars, state, failures, last_failure_time,
                   cb, failedAt, entry>>

\* lines 119-124: after a success a half-open breaker is closed and its
\* counter zeroed; in any other state nothing is written
CB_Success(t) ==
    /\ pc[t] = "cb_ok"
    /\ LET b == cb[t] IN
          IF state[b] = "half-open"
          THEN /\ state' = [state EXCEPT ![b] = "closed"]
               /\ failures' = [failures EXCEPT ![b] = 0]
          ELSE UNCHANGED <<state, failures>>
    /\ res' = [res EXCEPT ![t] = "result"]
    /\ pc' = [pc EXCEPT ![t] = "cb_done"]
    /\ UNCHANGED <<ppVars, now, tmp, rlVars, last_failure_time, cb, invoked, failedAt,
                   entry>>

\* line 128, self.failures += 1: the read
CB_FailRead(t) ==
    /\ pc[t] = "cb_exc_read"
    /\ tmp' = [tmp EXCEPT ![t] = failures[cb[t]]]
    /\ pc' = [pc EXCEPT ![t] = "cb_exc_write"]
    /\ UNCHANGED <<ppVars, now, res, rlVars, cbVars>>

\* line 128, self.failures += 1: the write
CB_FailWrite(t) ==
    /\ pc[t] = "cb_exc_write"
    /\ failures' = [failures EXCEPT ![cb[t]] = tmp[t] + 1]
    /\ pc' = [pc EXCEPT ![t] = "cb_exc_time"]
    /\ UNCHANGED <<ppVars, now, tmp, res, rlVars, state, last_failure_time, cb,
                   invoked, failedAt, entry>>

\* lines 129-137.  Line 129 evaluates time.time(): with `time` unbound the
\* except clause is left there by a NameError, before last_failure_time is
\* assigned and before the threshold test of line 132; were it bound, the
\* time would be stored, the breaker opened at the threshold and the
\* function's own exception re-raised.
CB_FailTime(t) ==
    /\ pc[t] = "cb_exc_time"
    /\ LET b == cb[t] IN
          /\ failedAt' = [failedAt EXCEPT ![b] = now]
          /\ IF ~TimeResolves
             THEN /\ res' = [res EXCEPT ![t] = "NameError"]
                  /\ UNCHANGED <<state, last_failure_time>>
             ELSE /\ last_failure_time' = [last_failure_time EXCEPT ![b] = now]
                  /\ state' = [state EXCEPT ![b] =
                                 IF ThresholdHit(failures[b]) THEN "open" ELSE @]
                  /\ res' = [res EXCEPT ![t] = "raised"]
    /\ pc' = [pc EXCEPT ![t] = "cb_done"]
    /\ UNCHANGED <<ppVars, now, tmp, rlVars, failures, cb, invoked, entry>>

\* execute has returned or raised; the thread serves the next call
CB_Return(t) ==
    /\ pc[t] = "cb_done"
    /\ pc' = [pc EXCEPT ![t] = "idle"]
    /\ cb' = [cb EXCEPT ![t] = NoProvider]
    /\ tmp' = [tmp EXCEPT ![t] = 0]
    /\ res' = [res EXCEPT ![t] = "none"]
    /\ invoked' = [invoked EXCEPT ![t] = 0]
    /\ entry' = [entry EXCEPT ![t] = NoEntry]
    /\ UNCHANGED <<ppVars, now, rlVars, state, failures, last_failure_time, failedAt>>

CB_Step(t) ==
    \/ CB_Gate(t) \/ CB_CallReturns(t) \/ CB_CallRaises(t) \/ CB_Success(t)
    \/ CB_FailRead(t) \/ CB_FailWrite(t) \/ CB_FailTime(t) \/ CB_Return(t)

\* The calls of one run are made on one breaker: a call reads and writes
\* only the fields of the breaker it is made on.
SoleBreaker(b) ==
    /\ \A x \in Threads : cb[x] \in {NoProvider, b}
    /\ \A o \in Providers \ {b} : failures[o] = 0

\* concurrent calls of execute
NextCB ==
    \/ Tick(reset_timeout)
    \/ \E t \in Threads : \E b \in Providers : SoleBreaker(b) /\ CB_Start(t, b)
    \/ \E t \in Threads : CB_Step(t)

SpecCB == Init /\ [][NextCB]_vars

\* the same calls, one at a time
NextCBSeq ==
    \/ Tick(reset_timeout)
    \/ \E t \in Threads : \E b \in Providers :
          AllIdle /\ SoleBreaker(b) /\ CB_Start(t, b)
    \/ \E t \in Threads : CB_Step(t)

SpecCBSeq == Init /\ [][NextCBSeq]_vars

(***************************************************************************)
(* rate_limit.decorated (rate_limiter.py:29-79).                           *)
(***************************************************************************)
\* dict assignment rate_limit_store[user] = rec
Put(store, user, rec) ==
    [x \in (DOMAIN store) \cup {user} |-> IF x = user THEN rec ELSE store[x]]

\* mutant of FreshRecord: a new window starts with the count of the
\* smallest limit already used up
FreshRecord_AtLimit(t0) == [requests |-> 10, window_start |-> t0]

\* mutant of Incremented: an admission counts twice
Incremented_Twice(v) == v + 2

\* mutant of FreshRecord: the count of a new window starts at 1
FreshRecord_CountsFromOne(t0) == [requests |-> 1, window_start |-> t0]

\* lines 52-55 and 60-63: the dict literal {'requests': 0, 'window_start': t0}
FreshRecord(t0) == [requests |-> 0, window_start |-> t0]

\* line 59: current_time - rate_limit_store[user_id]['window_start'] > time_window
WindowExpired(ct, ws) == ct - ws > time_window

\* mutant of LimitReached: the test is strict
LimitReached_Strict(count, max) == count > max

\* line 66: rate_limit_store[user_id]['requests'] >= max_requests
LimitReached(count, max) == count >= max

\* line 74: the value stored by `... ['requests'] += 1`
Incremented(v) == v + 1

\* history: one more admission in the current window; the count stops one
\* above the limit, which is all that the properties below look at
CountAdmission(n, max) == IF n > max THEN n ELSE n + 1

\* the threads that hold, between the two halves of line 74, the dict that
\* an assignment to rate_limit_store[user] is about to replace
Holders(user) ==
    {x \in Threads : pc[x] = "rl_inc_write" /\ user_id[x] = user}

\* lines 29-34: a request of `user` enters the decorator
RL_Start(t, user) ==
    /\ pc[t] = "idle"
    /\ pc' = [pc EXCEPT ![t] = "rl_lookup"]
    /\ user_id' = [user_id EXCEPT ![t] = user]
    /\ UNCHANGED <<ppVars, now, tmp, res, cbVars, rate_limit_store, current_time,
                   recStale, seenStart, admittedInWindow, exhausted>>

\* line 51: if user_id not in rate_limit_store
RL_Lookup(t) ==
    /\ pc[t] = "rl_lookup"
    /\ pc' = [pc EXCEPT ![t] =
                IF user_id[t] \notin DOMAIN rate_limit_store
                THEN "rl_create" ELSE "rl_now"]
    /\ UNCHANGED <<ppVars, now, tmp, res, cbVars, rlVars>>

\* lines 52-55: rate_limit_store[user_id] = {'requests': 0, 'window_start': time.time()}
RL_Create(t) ==
    /\ pc[t] = "rl_create"
    /\ rate_limit_store' = Put(rate_limit_store, user_id[t], FreshRecord(now))
    /\ recStale' = [x \in Threads |->
                      IF x \in Holders(user_id[t]) THEN TRUE ELSE recStale[x]]
    /\ admittedInWindow' = [admittedInWindow EXCEPT ![user_id[t]] = 0]
    /\ pc' = [pc EXCEPT ![t] = "rl_now"]
    /\ UNCHANGED <<ppVars, now, tmp, res, cbVars, user_id, current_time, seenStart,
                   exhausted>>

\* line 58: current_time = time.time()
RL_Now(t) ==
    /\ pc[t] = "rl_now"
    /\ current_time' = [current_time EXCEPT ![t] = now]
    /\ pc' = [pc EXCEPT ![t] = "rl_window"]
    /\ UNCHANGED <<ppVars, now, tmp, res, cbVars, rate_limit_store, user_id, recStale,
                   seenStart, admittedInWindow, exhausted>>

\* line 59: the reset test
RL_Window(t) ==
    /\ pc[t] = "rl_window"
    /\ LET ws == rate_limit_store[user_id[t]].window_start IN
          /\ seenStart' = [seenStart EXCEPT ![t] = ws]
          /\ pc' = [pc EXCEPT ![t] =
                      IF WindowExpired(current_time[t], ws)
                      THEN "rl_reset" ELSE "rl_limit"]
    /\ UNCHANGED <<ppVars, now, tmp, res, cbVars, rate_limit_store, user_id,
                   current_time, recStale, admittedInWindow, exhausted>>

\* lines 60-63: rate_limit_store[user_id] = {'requests': 0, 'window_start': current_time}
RL_Reset(t) ==
    /\ pc[t] = "rl_reset"
    /\ rate_limit_store' =
          Put(rate_limit_store, user_id[t], FreshRecord(current_time[t]))
    /\ recStale' = [x \in Threads |->
                      IF x \in Holders(user_id[t]) THEN TRUE ELSE recStale[x]]
    /\ admittedInWindow' = [admittedInWindow EXCEPT ![user_id[t]] = 0]
    /\ pc' = [pc EXCEPT ![t] = "rl_limit"]
    /\ UNCHANGED <<ppVars, now, tmp, res, cbVars, user_id, current_time, seenStart,
                   exhausted>>

\* lines 66-71: the limit test; over the limit the request is answered 429
RL_Limit(t) ==
    /\ pc[t] = "rl_limit"
    /\ LET over == LimitReached(rate_limit_store[user_id[t]].requests,
                                max_requests(get_user_tier(user_id[t]))) IN
          /\ pc' = [pc EXCEPT ![t] = IF over THEN "rl_done" ELSE "rl_inc_read"]
          /\ res' = [res EXCEPT ![t] = IF over THEN "429" ELSE @]
          /\ exhausted' = [exhausted EXCEPT ![user_id[t]] = IF over THEN TRUE ELSE @]
    /\ UNCHANGED <<ppVars, now, tmp, cbVars, rate_limit_store, user_id, current_time,
                   recStale, seenStart, admittedInWindow>>

\* line 74, first half: fetch the user's dict and read its 'requests'
RL_IncRead(t) ==
    /\ pc[t] = "rl_inc_read"
    /\ tmp' = [tmp EXCEPT ![t] = rate_limit_store[user_id[t]].requests]
    /\ recStale' = [recStale EXCEPT ![t] = FALSE]
    /\ pc' = [pc EXCEPT ![t] = "rl_inc_write"]
    /\ UNCHANGED <<ppVars, now, res, cbVars, rate_limit_store, user_id, current_time,
                   seenStart, admittedInWindow, exhausted>>

\* line 74, second half: store the incremented value in the dict fetched by
\* the first half (a dict replaced meanwhile is no longer in the store);
\* lines 77-79: the request is admitted and the route function is called
RL_IncWrite(t) ==
    /\ pc[t] = "rl_inc_write"
    /\ rate_limit_store' =
          IF recStale[t] THEN rate_limit_store
          ELSE [rate_limit_store EXCEPT ![user_id[t]].requests = Incremented(tmp[t])]
    /\ admittedInWindow' =
          [admittedInWindow EXCEPT ![user_id[t]] =
              CountAdmission(@, max_requests(get_user_tier(user_id[t])))]
    /\ res' = [res EXCEPT ![t] = "admitted"]
    /\ pc' = [pc EXCEPT ![t] = "rl_done"]
    /\ UNCHANGED <<ppVars, now, tmp, cbVars, user_id, current_time, recStale,
                   seenStart, exhausted>>

\* the response leaves the decorator; the thread serves the next request
RL_Return(t) ==
    /\ pc[t] = "rl_done"
    /\ pc' = [pc EXCEPT ![t] = "idle"]
    /\ user_id' = [user_id EXCEPT ![t] = 0]
    /\ current_time' = [current_time EXCEPT ![t] = 0]
    /\ seenStart' = [seenStart EXCEPT ![t] = 0]
    /\ tmp' = [tmp EXCEPT ![t] = 0]
    /\ recStale' = [recStale EXCEPT ![t] = FALSE]
    /\ res' = [res EXCEPT ![t] = "none"]
    /\ UNCHANGED <<ppVars, now, cbVars, rate_limit_store, admittedInWindow, exhausted>>

RL_Step(t) ==
    \/ RL_Lookup(t) \/ RL_Create(t) \/ RL_Now(t) \/ RL_Window(t)
    \/ RL_Reset(t) \/ RL_Limit(t) \/ RL_IncRead(t) \/ RL_IncWrite(t)
    \/ RL_Return(t)

\* The requests of one run are those of one user: the records of different
\* users are different keys of rate_limit_store, and a request reads and
\* writes only the key of its own user (Put).
SoleUser(user) ==
    /\ DOMAIN rate_limit_store \subseteq {user}
    /\ \A x \in Threads : user_id[x] \in {0, user}

\* concurrent requests through the rate limiter
NextRL ==
    \/ Tick(time_window)
    \/ \E t \in Threads : \E user \in ConcUsers : SoleUser(user) /\ RL_Start(t, user)
    \/ \E t \in Threads : RL_Step(t)

SpecRL == Init /\ [][NextRL]_vars

\* the same requests, one at a time
NextRLSeq ==
    \/ Tick(time_window)
    \/ \E t \in Threads : \E user \in Users :
          AllIdle /\ SoleUser(user) /\ RL_Start(t, user)
    \/ \E t \in Threads : RL_Step(t)

SpecRLSeq == Init /\ [][NextRLSeq]_vars

(***************************************************************************)
(* process_prompt (app.py:94-145): the route behind @rate_limit.           *)
(***************************************************************************)
\* the values db.get_user_tier can return; "admin" stands for every value
\* that check_usage_limits sends to its else branch
DbTiers == {"free", "pro", "enterprise", "admin"}

\* usage_tracker.py:302-309, the monthly ceiling of a tier that has one
usage_ceiling(tier) ==
    CASE tier = "free" -> 50
      [] tier = "pro" -> 500
      [] OTHER -> 10

\* usage_tracker.py:302-309: 'enterprise' is unlimited
WithinLimits(tier, count) ==
    IF tier = "enterprise" THEN TRUE ELSE count < usage_ceiling(tier)

\* mutant of check_usage_limits: a failed read lets the request through
check_usage_limits_FailsOpen(readable, tier, count) ==
    IF readable THEN WithinLimits(tier, count) ELSE TRUE

\* usage_tracker.py:286-313: a failed read of the usage table is caught by
\* the except clause, which returns False
check_usage_limits(readable, tier, count) ==
    IF readable THEN WithinLimits(tier, count) ELSE FALSE

\* the usage rows the database file holds when the process starts: none, or
\* one less than a ceiling
UsageAtStart == {0} \cup {usage_ceiling(tr) - 1 : tr \in DbTiers \ {"enterprise"}}

\* a process started on a database that other runs have written to
InitPP ==
    /\ InitMemory
    /\ \E n \in UsageAtStart : usage_count = [u \in Users |-> n]

\* the provider classes that define a process method (openai.py:32,
\* anthropic.py:32, google.py:33); HunterProvider and GitHubProvider do not
HasProcess(p) == p \in {"openai", "anthropic", "google"}

\* how a call of process can end upstream
Outcomes == {"ok", "timeout", "upstream_error"}

\* mutant of ProcessResult: every dict says 'status': 'success'
ProcessResult_AlwaysSuccess(p, out) == [provider |-> p, status |-> "success"]

\* openai.py:68-101: process returns a dict on every path; a timeout and a
\* request error are caught and returned with 'status': 'error'
ProcessResult(p, out) ==
    [provider |-> p, status |-> IF out = "ok" THEN "success" ELSE "error"]

\* error_handler.py:109-113, the dict of a fast-failing breaker
Unavailable == [provider |-> "none", status |-> "error"]

\* mutant of FallbackTarget: the fallback runs on the breaker of 'github'
FallbackTarget_Github(requested) == "github"

\* mutant of FallbackTarget: the failed call is retried on the same provider
FallbackTarget_Retry(requested) == requested

\* app.py:128: the fallback runs on circuit_breakers['openai']
FallbackTarget(requested) == "openai"

\* the exception classes that reach an except clause of a route
ErrorClasses ==
    {"RequestException", "Timeout", "ConnectTimeout", "ReadTimeout",
     "ConnectionError", "HTTPError", "ValueError", "KeyError", "NameError",
     "AttributeError", "BadRequest"}

\* the base classes of a class of requests.exceptions (error_handler.py:9):
\* Timeout, ConnectionError and HTTPError derive from RequestException,
\* ReadTimeout from Timeout, ConnectTimeout from ConnectionError and Timeout
Bases(cls) ==
    CASE cls \in {"Timeout", "ConnectionError", "HTTPError"} -> {"RequestException"}
      [] cls = "ReadTimeout" -> {"Timeout"}
      [] cls = "ConnectTimeout" -> {"ConnectionError", "Timeout"}
      [] OTHER -> {}

\* isinstance(error, cls)
RECURSIVE IsInstance(_, _)
IsInstance(exc, cls) ==
    exc = cls \/ \E b \in Bases(exc) : IsInstance(b, cls)

\* error_handler.py:23-67, the status code handle_error answers with: the
\* isinstance tests in the order of the source, RequestException (line 23)
\* before Timeout (line 32)
handle_error(exc) ==
    IF IsInstance(exc, "RequestException") THEN 502
    ELSE IF IsInstance(exc, "Timeout") THEN 504
    ELSE IF IsInstance(exc, "ValueError") THEN 400
    ELSE IF IsInstance(exc, "KeyError") THEN 400
    ELSE 500

\* mutant of Caught: the exception leaves the route
Caught_Propagates(exc) == [code |-> 0, error |-> "uncaught", result |-> NoResult]

\* app.py:143-145: except Exception as e: return handle_error(e)
Caught(exc) == [code |-> handle_error(exc), error |-> exc, result |-> NoResult]

\* the bodies a request can carry
Bodies == {"valid", "noprompt", "malformed"}

\* the provider names a request asks for: the fallback provider, another
\* provider with a process method, a provider without one, and a name that
\* is not a key of PROVIDERS
ProviderNames == {"openai", "anthropic", "hunter", "unknown"}

\* app.py:94-96: an authenticated request of `user` arrives and enters the
\* rate limiter that decorates the route
PP_Start(t, user) ==
    /\ pc[t] = "idle"
    /\ pc' = [pc EXCEPT ![t] = "rl_lookup"]
    /\ user_id' = [user_id EXCEPT ![t] = user]
    /\ atStart' = [atStart EXCEPT ![t] =
                     [store |-> rate_limit_store, state |-> state,
                      failures |-> failures, last |-> last_failure_time]]
    /\ UNCHANGED <<now, tmp, res, cbVars, rate_limit_store, current_time,
                   recStale, seenStart, admittedInWindow, exhausted,
                   usage_count, provider_name, body, attempt, result, response,
                   outcome, usageCheck, execs, called, tracked, written>>

\* rate_limiter.py:68-71: the decorator answers 429 and the route never runs
PP_RateLimited(t) ==
    /\ pc[t] = "rl_done"
    /\ res[t] = "429"
    /\ response' = [response EXCEPT ![t] =
                      [code |-> 429, error |-> "Rate limit exceeded",
                       result |-> NoResult]]
    /\ pc' = [pc EXCEPT ![t] = "pp_done"]
    /\ UNCHANGED <<now, tmp, res, cbVars, rlVars, usage_count, provider_name,
                   body, attempt, result, outcome, usageCheck, execs, called,
                   tracked, written, atStart>>

\* rate_limiter.py:79 and app.py:101-105: the admitted request enters the
\* route, which asks check_usage_limits.  The tier is what the users table
\* holds (db.get_user_tier answers 'free' when it cannot read it); the count
\* is read from the usage table, or the read fails.
PP_CheckUsage(t) ==
    /\ pc[t] = "rl_done"
    /\ res[t] = "admitted"
    /\ \E readable \in BOOLEAN : \E tier \in DbTiers :
          LET count == usage_count[user_id[t]]
              within == check_usage_limits(readable, tier, count) IN
             /\ usageCheck' = [usageCheck EXCEPT ![t] =
                                 [readable |-> readable, tier |-> tier,
                                  count |-> count, within |-> within]]
             /\ IF within
                THEN /\ pc' = [pc EXCEPT ![t] = "pp_parse"]
                     /\ UNCHANGED response
                ELSE /\ pc' = [pc EXCEPT ![t] = "pp_done"]
                     /\ response' = [response EXCEPT ![t] =
                                       [code |-> 429,
                                        error |-> "Usage limit exceeded",
                                        result |-> NoResult]]
    /\ UNCHANGED <<now, tmp, res, cbVars, rlVars, usage_count, provider_name,
                   body, attempt, result, outcome, execs, called, tracked,
                   written, atStart>>

\* app.py:107-123: the body is read and validated, and execute is called on
\* the breaker of the requested provider.  A body that request.json cannot
\* give as a dict raises inside the outer try.
PP_Parse(t) ==
    /\ pc[t] = "pp_parse"
    /\ \E b \in Bodies : \E p \in ProviderNames :
          /\ p \in Providers /\ ~HasProcess(p) => failures[p] < MaxFailures
          /\ body' = [body EXCEPT ![t] = b]
          /\ IF b = "malformed"
             THEN /\ response' = [response EXCEPT ![t] = Caught("BadRequest")]
                  /\ pc' = [pc EXCEPT ![t] = "pp_done"]
                  /\ UNCHANGED <<provider_name, cb, attempt, execs>>
             ELSE IF b = "noprompt"
             THEN /\ response' = [response EXCEPT ![t] =
                                    [code |-> 400,
                                     error |-> "No prompt provided",
                                     result |-> NoResult]]
                  /\ provider_name' = [provider_name EXCEPT ![t] = p]
                  /\ pc' = [pc EXCEPT ![t] = "pp_done"]
                  /\ UNCHANGED <<cb, attempt, execs>>
             ELSE IF p \notin Providers
             THEN /\ response' = [response EXCEPT ![t] =
                                    [code |-> 400, error |-> "not supported",
                                     result |-> NoResult]]
                  /\ provider_name' = [provider_name EXCEPT ![t] = p]
                  /\ pc' = [pc EXCEPT ![t] = "pp_done"]
                  /\ UNCHANGED <<cb, attempt, execs>>
             ELSE /\ provider_name' = [provider_name EXCEPT ![t] = p]
                  /\ cb' = [cb EXCEPT ![t] = p]
                  /\ attempt' = [attempt EXCEPT ![t] = 1]
                  /\ execs' = [execs EXCEPT ![t] = Append(@, p)]
                  /\ pc' = [pc EXCEPT ![t] = "cb_gate"]
                  /\ UNCHANGED response
    /\ UNCHANGED <<now, tmp, res, rlVars, state, failures, last_failure_time,
                   invoked, failedAt, entry, usage_count, result, outcome,
                   usageCheck, called, tracked, written, atStart>>

\* error_handler.py:116 with the lambdas of app.py:123 and 128: a provider
\* with a process method returns a dict however the upstream call ended;
\* provider.process on a provider without one raises AttributeError
PP_Call(t) ==
    /\ pc[t] = "cb_call"
    /\ invoked' = [invoked EXCEPT ![t] = @ + 1]
    /\ IF HasProcess(cb[t])
       THEN \E out \in Outcomes :
               /\ outcome' = [outcome EXCEPT ![t] = out]
               /\ result' = [result EXCEPT ![t] = ProcessResult(cb[t], out)]
               /\ called' = [called EXCEPT ![t] = Append(@, cb[t])]
               /\ pc' = [pc EXCEPT ![t] = "cb_ok"]
       ELSE /\ outcome' = [outcome EXCEPT ![t] = "AttributeError"]
            /\ pc' = [pc EXCEPT ![t] = "cb_exc_read"]
            /\ UNCHANGED <<result, called>>
    /\ UNCHANGED <<now, tmp, res, rlVars, state, failures, last_failure_time,
                   cb, failedAt, entry, usage_count, provider_name, body,
                   attempt, response, usageCheck, execs, tracked, written,
                   atStart>>

\* app.py:123-130: execute has returned or raised.  A returned dict goes on
\* to track_usage.  An exception of the first execute is caught by line 124:
\* for a provider other than 'openai' execute is called on the fallback's
\* breaker, for 'openai' the exception is raised again; an exception of the
\* fallback's execute is raised inside the except clause.  Both reach the
\* outer except clause of line 143.
PP_AfterExecute(t) ==
    /\ pc[t] = "cb_done"
    /\ IF res[t] \in {"result", "unavailable"}
       THEN /\ result' = [result EXCEPT ![t] =
                            IF res[t] = "unavailable" THEN Unavailable ELSE @]
            /\ pc' = [pc EXCEPT ![t] = "pp_track"]
            /\ UNCHANGED <<cb, attempt, execs, response, res, invoked>>
       ELSE IF attempt[t] = 1 /\ provider_name[t] # "openai"
       THEN /\ cb' = [cb EXCEPT ![t] = FallbackTarget(provider_name[t])]
            /\ attempt' = [attempt EXCEPT ![t] = 2]
            /\ execs' = [execs EXCEPT ![t] =
                           Append(@, FallbackTarget(provider_name[t]))]
            /\ res' = [res EXCEPT ![t] = "none"]
            /\ invoked' = [invoked EXCEPT ![t] = 0]
            /\ pc' = [pc EXCEPT ![t] = "cb_gate"]
            /\ UNCHANGED <<result, response>>
       ELSE /\ response' = [response EXCEPT ![t] = Caught(res[t])]
            /\ pc' = [pc EXCEPT ![t] = "pp_done"]
            /\ UNCHANGED <<cb, attempt, execs, result, res, invoked>>
    /\ UNCHANGED <<now, tmp, rlVars, state, failures, last_failure_time,
                   failedAt, entry, usage_count, provider_name, body, outcome,
                   usageCheck, called, tracked, written, atStart>>

\* app.py:133-141: track_usage is called with the requested provider's name
\* and the status of the result; its INSERT adds a row, or fails and is
\* logged (usage_tracker.py:32-56).  The route then returns jsonify(result).
PP_Track(t) ==
    /\ pc[t] = "pp_track"
    /\ tracked' = [tracked EXCEPT ![t] =
                     Append(@, [provider |-> provider_name[t],
                                status |-> result[t].status])]
    /\ \E inserted \in BOOLEAN :
          IF inserted
          THEN /\ usage_count' = [usage_count EXCEPT ![user_id[t]] = @ + 1]
               /\ written' = [written EXCEPT ![t] = @ + 1]
          ELSE UNCHANGED <<usage_count, written>>
    /\ response' = [response EXCEPT ![t] =
                      [code |-> 200, error |-> "none", result |-> result[t]]]
    /\ pc' = [pc EXCEPT ![t] = "pp_done"]
    /\ UNCHANGED <<now, tmp, res, cbVars, rlVars, provider_name, body, attempt,
                   result, outcome, usageCheck, execs, called, atStart>>

\* the response has left the route; the thread serves the next request
PP_Return(t) ==
    /\ pc[t] = "pp_done"
    /\ pc' = [pc EXCEPT ![t] = "idle"]
    /\ user_id' = [user_id EXCEPT ![t] = 0]
    /\ current_time' = [current_time EXCEPT ![t] = 0]
    /\ seenStart' = [seenStart EXCEPT ![t] = 0]
    /\ tmp' = [tmp EXCEPT ![t] = 0]
    /\ recStale' = [recStale EXCEPT ![t] = FALSE]
    /\ res' = [res EXCEPT ![t] = "none"]
    /\ cb' = [cb EXCEPT ![t] = NoProvider]
    /\ invoked' = [invoked EXCEPT ![t] = 0]
    /\ entry' = [entry EXCEPT ![t] = NoEntry]
    /\ provider_name' = [provider_name EXCEPT ![t] = NoProvider]
    /\ body' = [body EXCEPT ![t] = "none"]
    /\ attempt' = [attempt EXCEPT ![t] = 0]
    /\ result' = [result EXCEPT ![t] = NoResult]
    /\ response' = [response EXCEPT ![t] = NoResponse]
    /\ outcome' = [outcome EXCEPT ![t] = "none"]
    /\ usageCheck' = [usageCheck EXCEPT ![t] = NoCheck]
    /\ execs' = [execs EXCEPT ![t] = << >>]
    /\ called' = [called EXCEPT ![t] = << >>]
    /\ tracked' = [tracked EXCEPT ![t] = << >>]
    /\ written' = [written EXCEPT ![t] = 0]
    /\ atStart' = [atStart EXCEPT ![t] = << >>]
    /\ UNCHANGED <<now, state, failures, last_failure_time, failedAt,
                   rate_limit_store, admittedInWindow, exhausted, usage_count>>

\* the steps of a request: the decorator's, the route's and execute's.  The
\* requests of a run fall into one window of the rate limiter, so the reset
\* of rate_limiter.py:60-63 is not among them.
PP_Step(t) ==
    \/ RL_Lookup(t) \/ RL_Create(t) \/ RL_Now(t) \/ RL_Window(t)
    \/ RL_Limit(t) \/ RL_IncRead(t) \/ RL_IncWrite(t)
    \/ PP_RateLimited(t) \/ PP_CheckUsage(t) \/ PP_Parse(t)
    \/ CB_Gate(t) \/ PP_Call(t) \/ CB_Success(t)
    \/ CB_FailRead(t) \/ CB_FailWrite(t) \/ CB_FailTime(t)
    \/ PP_AfterExecute(t) \/ PP_Track(t) \/ PP_Return(t)

\* the users whose requests reach the route
PromptUsers == {2}

\* a request is handed to the first worker that is free
FirstIdle(t) == \A x \in Threads : x < t => pc[x] # "idle"

\* requests to /api/process, one at a time
NextPPSeq ==
    \/ \E t \in Threads : \E user \in PromptUsers :
          AllIdle /\ FirstIdle(t) /\ SoleUser(user) /\ PP_Start(t, user)
    \/ \E t \in Threads : PP_Step(t)

SpecPPSeq == InitPP /\ [][NextPPSeq]_vars

\* the steps of a request that the rate limiter admits, up to its response
PP_Serve(t) ==
    \/ RL_Lookup(t) \/ RL_Create(t) \/ RL_Now(t) \/ RL_Window(t)
    \/ RL_Limit(t) \/ RL_IncRead(t) \/ RL_IncWrite(t)
    \/ PP_CheckUsage(t) \/ PP_Parse(t)
    \/ CB_Gate(t) \/ PP_Call(t) \/ CB_Success(t)
    \/ CB_FailRead(t) \/ CB_FailWrite(t) \/ CB_FailTime(t)
    \/ PP_AfterExecute(t) \/ PP_Track(t)

\* The requests that are run concurrently: those of a user whom the users
\* table gives the 'free' tier, with a prompt, for the fallback provider or
\* for a provider without a process method.
FreeTierRequests ==
    \A t \in Threads :
       /\ usageCheck[t].tier \in {"none", "free"}
       /\ body[t] \in {"none", "valid"}
       /\ provider_name[t] \in {NoProvider, "openai", "hunter"}

\* concurrent requests to /api/process, one on each worker thread (fewer
\* than the smallest hourly limit, so that none is rate limited)
NextPP ==
    \/ \E t \in Threads : \E user \in PromptUsers :
          SoleUser(user) /\ PP_Start(t, user)
    \/ \E t \in Threads : PP_Serve(t) /\ FreeTierRequests'

SpecPP == InitPP /\ [][NextPP]_vars

(***************************************************************************)
(* handle_error (error_handler.py:13-67), as the except clause of a route  *)
(* calls it with the exception it caught.                                  *)
(***************************************************************************)
\* app.py:143-145: a route's except clause catches `exc` and answers with
\* handle_error(exc)
HE_Handle(t, exc) ==
    /\ pc[t] = "idle"
    /\ response' = [response EXCEPT ![t] = Caught(exc)]
    /\ pc' = [pc EXCEPT ![t] = "pp_done"]
    /\ UNCHANGED <<now, tmp, res, cbVars, rlVars, usage_count, provider_name,
                   body, attempt, result, outcome, usageCheck, execs, called,
                   tracked, written, atStart>>

NextHE ==
    \/ \E t \in Threads : \E exc \in ErrorClasses : HE_Handle(t, exc)
    \/ \E t \in Threads : PP_Return(t)

SpecHE == Init /\ [][NextHE]_vars

(***************************************************************************)
(* Every action of every component.                                        *)
(***************************************************************************)
Next == NextCB \/ NextRL \/ NextPPSeq \/ NextPP \/ NextHE

Spec == Init /\ [][Next]_vars

(***************************************************************************)
(* Properties of CircuitBreaker.execute.                                   *)
(***************************************************************************)
\* the thread has passed the gate of lines 102-113, or has left execute
PastGate(t) ==
    pc[t] \in {"cb_call", "cb_ok", "cb_exc_read", "cb_exc_write",
               "cb_exc_time", "cb_done"}

\* the wrapped function has run and its outcome is not yet booked
InFlight(t) ==
    pc[t] \in {"cb_ok", "cb_exc_read", "cb_exc_write", "cb_exc_time"}

\* execute has ended and the wrapped function had failed in it
Failed(t) ==
    pc[t] = "cb_done" /\ invoked[t] = 1 /\ res[t] \in {"raised", "NameError"}

\* The breaker a thread entered was open: it was in state 'open', or its
\* counter had reached failure_threshold, from which call on the breaker is
\* open by the transition rule (C1).
EnteredOpen(t) ==
    entry[t].state = "open" \/ entry[t].failures >= failure_threshold

\* time from the breaker's last failed call to the thread's entry
SinceFailure(t) == entry[t].at - entry[t].failedAt

\* the call is the probe: made on a half-open breaker, or on an open one
\* after the reset timeout
Probe(t) ==
    \/ entry[t].state = "half-open"
    \/ EnteredOpen(t) /\ SinceFailure(t) > reset_timeout

\* C1: a breaker is never open before its counter has reached
\* failure_threshold, and the failing call that brings the counter to the
\* threshold leaves it open.
C1_OpensExactlyAtThreshold ==
    /\ \A b \in Providers : state[b] = "open" => failures[b] >= failure_threshold
    /\ \A t \in Threads :
          Failed(t) /\ failures[cb[t]] >= failure_threshold
             => state[cb[t]] = "open"

\* C2: after an execute whose wrapped call succeeded on a closed breaker the
\* breaker's failure counter is 0.
C2_SuccessResetsCounter ==
    \A t \in Threads :
       pc[t] = "cb_done" /\ res[t] = "result" /\ entry[t].state = "closed"
          => failures[cb[t]] = 0

\* C3: an execute made on an open breaker before reset_timeout has elapsed
\* since the last failure returns 'Service unavailable' and does not invoke
\* the wrapped function.
C3_FastFailWhileOpen ==
    \A t \in Threads :
       PastGate(t) /\ EnteredOpen(t) /\ SinceFailure(t) < reset_timeout
          => /\ invoked[t] = 0
             /\ pc[t] = "cb_done" => res[t] = "unavailable"

\* C4: an execute made on an open breaker once reset_timeout has elapsed
\* since the last failure (the boundary included) moves the breaker to
\* half-open and invokes the wrapped function in that same execute.
C4_HalfOpenAfterTimeout ==
    \A t \in Threads :
       PastGate(t) /\ EnteredOpen(t) /\ SinceFailure(t) >= reset_timeout
          => /\ pc[t] = "cb_call" => state[cb[t]] = "half-open"
             /\ pc[t] = "cb_done" => invoked[t] = 1

\* C5: when the probe call succeeds the breaker ends closed with a counter
\* of 0; when it fails the breaker ends open, last_failure_time is the time
\* of that failure and the counter has not decreased.
C5_ProbeOutcome ==
    \A t \in Threads :
       pc[t] = "cb_done" /\ Probe(t) /\ invoked[t] = 1
          => LET b == cb[t] IN
             /\ res[t] = "result" => state[b] = "closed" /\ failures[b] = 0
             /\ Failed(t) => /\ state[b] = "open"
                             /\ last_failure_time[b] = failedAt[b]
                             /\ failures[b] >= entry[t].failures

\* C6: of the calls that run concurrently on an open breaker whose reset
\* timeout has elapsed (or on a half-open one), one only has invoked the
\* wrapped function while the probe's outcome is not yet booked.
C6_SingleProbe ==
    \A b \in Providers :
       Cardinality({t \in Threads : cb[t] = b /\ Probe(t) /\ InFlight(t)}) <= 1

\* C7: in every reachable state, under every interleaving of concurrent
\* calls, an open breaker has a counter of at least failure_threshold.
C7_OpenImpliesThreshold ==
    \A b \in Providers : state[b] = "open" => failures[b] >= failure_threshold

(***************************************************************************)
(* Properties of the rate limiter.                                         *)
(***************************************************************************)
Limit(user) == max_requests(get_user_tier(user))

\* C8: requests run one after another: the stored request count of a user's
\* record, and the number of requests admitted since the record was last
\* (re)set, never exceed the max_requests of the user's tier.
C8_CountWithinLimit ==
    \A user \in DOMAIN rate_limit_store :
       /\ rate_limit_store[user].requests <= Limit(user)
       /\ admittedInWindow[user] <= Limit(user)

\* a user has used the whole window and a further request was rejected
C8_Witness ==
    \E user \in DOMAIN rate_limit_store :
       /\ rate_limit_store[user].requests = Limit(user)
       /\ admittedInWindow[user] = Limit(user)
       /\ exhausted[user]

\* C9: requests of one user run concurrently: the number of requests
\* admitted within one window never exceeds the max_requests of the tier.
C9_AdmittedWithinLimit ==
    \A user \in Users : admittedInWindow[user] <= Limit(user)

\* C10: free tier (user 1), requests run one after another.  A request is
\* rejected with 429 only as the 51st of its window, after 50 were admitted,
\* and no 51st is admitted; the first request evaluated more than 3600 s
\* after window_start is admitted and leaves the record at requests = 1,
\* window_start = the time of that request.
C10_FreeTierWindow ==
    \A t \in Threads :
       pc[t] = "rl_done" /\ user_id[t] = 1
          => LET rec == rate_limit_store[1]
                 rolled == current_time[t] - seenStart[t] > 3600 IN
             /\ res[t] = "429" => ~rolled /\ admittedInWindow[1] = 50
                                          /\ rec.requests = 50
             /\ res[t] = "admitted" => rec.requests <= 50
                                       /\ admittedInWindow[1] <= 50
             /\ rolled => /\ res[t] = "admitted"
                          /\ rec.requests = 1
                          /\ rec.window_start = current_time[t]

\* the free user was rejected in a window, and is admitted with a count of
\* 1 by the first request after the rollover
C10_Witness ==
    \E t \in Threads :
       /\ pc[t] = "rl_done" /\ user_id[t] = 1 /\ exhausted[1]
       /\ current_time[t] - seenStart[t] > 3600
       /\ res[t] = "admitted"
       /\ rate_limit_store[1].requests = 1

\* C11: a request of a user of the 'admin' tier (user 2), which
\* get_user_tier documents as bypassing rate limiting, is always admitted
\* and leaves rate_limit_store as it was: starting from the empty store,
\* the store never holds a record of that user.
C11_AdminBypasses ==
    /\ \A t \in Threads :
          pc[t] = "rl_done" /\ get_user_tier(user_id[t]) = "admin"
             => res[t] = "admitted"
    /\ \A user \in DOMAIN rate_limit_store : get_user_tier(user) # "admin"

\* the route has answered the request of thread t
Answered(t) == pc[t] = "pp_done"

\* the request was rejected by the usage check, which had read the count
OverUsage(t) ==
    /\ Answered(t)
    /\ response[t].error = "Usage limit exceeded"
    /\ usageCheck[t].readable

\* C12: a request rejected because the user is over the monthly usage limit
\* leaves the user's rate-limiter record and every circuit breaker as they
\* were when it arrived, and no provider has been called for it.
C12_UsageRejectionTouchesNothing ==
    \A t \in Threads :
       OverUsage(t)
          => /\ rate_limit_store = atStart[t].store
             /\ state = atStart[t].state
             /\ failures = atStart[t].failures
             /\ last_failure_time = atStart[t].last
             /\ called[t] = << >>
             /\ execs[t] = << >>

\* C13: when the requested provider is not 'openai', its breaker is open
\* when the request reaches it, the breaker of 'openai' is closed and the
\* call of 'openai' succeeds, then the process method of 'openai' has been
\* invoked and its result is what the caller receives.
C13_FallbackServesOpenBreaker ==
    \A t \in Threads :
       /\ Answered(t)
       /\ execs[t] # << >>
       /\ provider_name[t] # "openai"
       /\ atStart[t].state[provider_name[t]] = "open"
       /\ atStart[t].state["openai"] = "closed"
       /\ outcome[t] = "ok"
       => /\ called[t] = <<"openai">>
          /\ response[t].result = ProcessResult("openai", "ok")

\* the request of thread t has reached a circuit breaker
ReachedBreaker(t) == execs[t] # << >>

C15_RecordNamesServingProvider ==
    \A t \in Threads :
       /\ Answered(t)
       /\ attempt[t] = 2
       /\ outcome[t] = "ok"
       /\ tracked[t] # << >>
       => tracked[t][1].provider = response[t].result.provider

\* the same requests, where a request that can take a step takes one
SpecPPSeqFair == SpecPPSeq /\ \A t \in Threads : WF_vars(PP_Step(t))

\* execute has been called at most twice for the request of thread t: first
\* on the requested provider's breaker, then on the breaker of 'openai' and
\* only for a request of another provider, with at most one run of the
\* wrapped function in each
AtMostTwoExecutions(t) ==
    /\ Len(execs[t]) <= 2
    /\ Len(execs[t]) = attempt[t]
    /\ Len(called[t]) <= Len(execs[t])
    /\ invoked[t] <= 1
    /\ execs[t] # << >> => execs[t][1] = provider_name[t]
    /\ Len(execs[t]) = 2 => execs[t][2] = "openai" /\ provider_name[t] # "openai"
    /\ Answered(t) /\ provider_name[t] = "openai" /\ outcome[t] \notin {"none", "ok"}
          => /\ execs[t] = <<"openai">>
             /\ response[t].result.status = "error"

\* C16: every request terminates after at most two breaker executions, at
\* most one on the requested provider's breaker and at most one on the
\* fallback's; a failed call of 'openai' requested as such is not tried
\* again and its failure is returned; a failed fallback is not retried.
C16_TerminatesWithinTwoExecutions ==
    /\ [](\A t \in Threads : AtMostTwoExecutions(t))
    /\ \A t \in Threads : (pc[t] # "idle") ~> Answered(t)

\* a request was answered after two executions, the second of which failed
C16_Witness ==
    \E t \in Threads :
       /\ Answered(t)
       /\ execs[t] = <<"hunter", "openai">>
       /\ called[t] = <<"openai">>
       /\ outcome[t] = "upstream_error"

\* check_usage_limits has been called for the request of thread t and could
\* not read the usage table
StoreUnreadable(t) == usageCheck[t].tier # "none" /\ ~usageCheck[t].readable

\* C17: whenever the usage table cannot be read, check_usage_limits returns
\* False, whatever the tier and the number of rows; the request is answered
\* 429 'Usage limit exceeded', no breaker is executed and no provider
\* called.
C17_FailsClosed ==
    \A t \in Threads :
       StoreUnreadable(t)
          => /\ ~usageCheck[t].within
             /\ Answered(t)
             /\ response[t].code = 429
             /\ response[t].error = "Usage limit exceeded"
             /\ execs[t] = << >>
             /\ called[t] = << >>

\* a request of an unlimited ('enterprise') user with no usage at all was
\* rejected because the table could not be read
C17_Witness ==
    \E t \in Threads :
       /\ StoreUnreadable(t)
       /\ usageCheck[t].tier = "enterprise"
       /\ usageCheck[t].count = 0
       /\ Answered(t)
       /\ response[t].code = 429

\* execute has ended for thread t after a provider call that timed out or
\* failed upstream
UpstreamFailure(t) ==
    pc[t] = "cb_done" /\ outcome[t] \in {"timeout", "upstream_error"}

\* C18: a provider call that times out or fails upstream is counted by the
\* breaker that wrapped it: when execute ends the breaker's counter is one
\* higher than the call found it and the failure is dated at the call.
C18_UpstreamFailureCounted ==
    \A t \in Threads :
       UpstreamFailure(t)
          => /\ failures[cb[t]] = entry[t].failures + 1
             /\ res[t] # "result"

\* the calls of all threads on breaker b have failed, and each of them had
\* entered execute when the counter was c: they failed concurrently
FailedTogether(b, c) ==
    \A t \in Threads : Failed(t) /\ cb[t] = b /\ entry[t].failures = c

\* C19: when n calls on one breaker fail concurrently, the counter ends
\* exactly n higher than it started and the breaker ends open if and only
\* if that counter has reached failure_threshold.
C19_ConcurrentFailuresCounted ==
    \A b \in Providers : \A c \in 0..MaxFailures :
       FailedTogether(b, c)
          => /\ failures[b] = c + NumThreads
             /\ state[b] = "open" <=> failures[b] >= failure_threshold

\* C20: every request that has left process_prompt has been given a
\* response: whatever failed on the way (a provider call, a breaker, the
\* fallback, the usage write, the reading of the body), the route returned
\* a response with a status code and raised nothing to its caller.
C20_AlwaysResponds ==
    \A t \in Threads :
       Answered(t)
          => /\ response[t].code \in {200, 400, 429, 500, 502}
             /\ response[t].error # "uncaught"

\* a request whose body could not be read was answered 500 by the handler
\* of line 143, in a run where an earlier request had failed on 'hunter'
\* and the usage write of every served request had failed
C20_Witness ==
    /\ \E t \in Threads :
          /\ Answered(t)
          /\ response[t].code = 500
          /\ response[t].error = "BadRequest"
          /\ failures["hunter"] > 0
    /\ \E user \in PromptUsers : usage_count[user] = 0

\* C21: an execute that is rejected because the breaker is open and the
\* reset timeout has not elapsed leaves the breaker's counter, state and
\* last_failure_time as the call found them (calls run one at a time).
C21_FastFailLeavesBreaker ==
    \A t \in Threads :
       pc[t] = "cb_done" /\ res[t] = "unavailable"
          => /\ failures[cb[t]] = entry[t].failures
             /\ state[cb[t]] = entry[t].state
             /\ last_failure_time[cb[t]] = entry[t].failedAt

\* execute has ended for thread t without a fast-fail
NotFastFailed(t) == pc[t] = "cb_done" /\ res[t] # "unavailable"

\* C22: every execute that is not fast-failed has run the wrapped function
\* exactly once; when the function failed, the caller is given the
\* function's own exception, and by then the counter is one higher than the
\* call found it and last_failure_time is the time of the failure.
C22_OwnFailureAfterBookkeeping ==
    \A t \in Threads :
       NotFastFailed(t)
          => /\ invoked[t] = 1
             /\ res[t] # "result"
                   => /\ res[t] = "raised"
                      /\ failures[cb[t]] = entry[t].failures + 1
                      /\ last_failure_time[cb[t]] = failedAt[cb[t]]

\* the decorator has answered the request of thread t with 429
RateLimited(t) ==
    Answered(t) /\ response[t].error = "Rate limit exceeded"

\* C23: a request that the rate limiter rejects leaves rate_limit_store as
\* it was when the request arrived (count and window_start of the user's
\* record included), and the route function is not entered: no usage check,
\* no breaker, no provider, no usage record.
C23_RejectionLeavesRecord ==
    \A t \in Threads :
       RateLimited(t)
          => /\ rate_limit_store = atStart[t].store
             /\ rate_limit_store[user_id[t]].window_start = seenStart[t]
             /\ usageCheck[t] = NoCheck
             /\ execs[t] = << >>
             /\ called[t] = << >>
             /\ tracked[t] = << >>

\* a request was rejected at a stored count equal to the limit
C23_Witness ==
    \E t \in Threads :
       /\ RateLimited(t)
       /\ response[t].code = 429
       /\ rate_limit_store[user_id[t]].requests = Limit(user_id[t])

\* C24: a request evaluated when current_time - window_start >= time_window,
\* the boundary included, resets the record before the limit test: it is
\* admitted and leaves window_start = current_time with a count of 1 (the
\* reset count 0 plus its own admission).
C24_ResetAtBoundary ==
    \A t \in Threads :
       pc[t] = "rl_done" /\ current_time[t] - seenStart[t] >= time_window
          => /\ res[t] = "admitted"
             /\ rate_limit_store[user_id[t]].window_start = current_time[t]
             /\ rate_limit_store[user_id[t]].requests = 1

\* the request of thread t was rejected before any breaker was executed:
\* rate limited, over the usage limit (or the count unreadable), without a
\* prompt, or for a provider that is not registered
RejectedEarly(t) ==
    /\ Answered(t)
    /\ execs[t] = << >>
    /\ response[t].code \in {429, 400}

\* the store after the rate check has admitted one request of `user` at
\* time t0 into the store `old`
AfterAdmission(old, user, t0) ==
    Put(old, user,
        IF user \in DOMAIN old
        THEN [old[user] EXCEPT !.requests = @ + 1]
        ELSE [requests |-> 1, window_start |-> t0])

C26_TimeoutIs504 ==
    \A t \in Threads :
       Answered(t) /\ response[t].error \in ErrorClasses
          => /\ IsInstance(response[t].error, "Timeout")
                   => response[t].code = 504
             /\ response[t].code = 502
                   => /\ IsInstance(response[t].error, "RequestException")
                      /\ ~IsInstance(response[t].error, "Timeout")

\* the usage rows written by the requests of the threads in S
RECURSIVE SumWritten(_)
SumWritten(S) ==
    IF S = {} THEN 0
    ELSE LET t == CHOOSE x \in S : TRUE IN written[t] + SumWritten(S \ {t})

\* every usage check made so far found the user in the 'free' tier
AllCheckedFree == \A t \in Threads : usageCheck[t].tier \in {"none", "free"}

\* C27: whatever the interleaving of the concurrent requests of one
\* free-tier user, the usage rows of the month never exceed the ceiling of
\* 50 (the rows present before the requests being within it).
C27_MonthlyCeilingHolds ==
    \A user \in PromptUsers :
       /\ AllCheckedFree
       /\ usage_count[user] - SumWritten(Threads) <= usage_ceiling("free")
       => usage_count[user] <= usage_ceiling("free")

\* C28: once every in-flight execute has returned, no breaker is left in
\* state 'half-open'.
C28_NeverLeftHalfOpen ==
    (\A t \in Threads : pc[t] \in {"idle", "cb_done"})
       => \A b \in Providers : state[b] # "half-open"

\* the breakers a request may touch: that of the requested provider and,
\* once the fallback is attempted, that of 'openai'
OwnBreakers(t) ==
    {provider_name[t]} \cup (IF attempt[t] = 2 THEN {"openai"} ELSE {})

\* C30: a request for provider P executes only the breaker of P and, when
\* the fallback is attempted, the breaker of 'openai'; the state, counter
\* and last_failure_time of every other breaker stay as they were when the
\* request arrived.
C30_OtherBreakersUntouched ==
    \A t \in Threads :
       pc[t] # "idle"
          => /\ \A i \in DOMAIN execs[t] : execs[t][i] \in OwnBreakers(t)
             /\ \A o \in Providers \ OwnBreakers(t) :
                   /\ state[o] = atStart[t].state[o]
                   /\ failures[o] = atStart[t].failures[o]
                   /\ last_failure_time[o] = atStart[t].last[o]

\* a request for 'hunter' failed there, was served by the fallback, and
\* changed the counter of 'hunter' only
C30_Witness ==
    \E t \in Threads :
       /\ Answered(t)
       /\ execs[t] = <<"hunter", "openai">>
       /\ outcome[t] = "ok"
       /\ failures["hunter"] = atStart[t].failures["hunter"] + 1
       /\ failures["openai"] = atStart[t].failures["openai"]

====
